---- MODULE Spec2Model ----
(***************************************************************************)
(* Model of agentic-viz: the selection and the rendering of a              *)
(* visualization (agents/visualization_agent.py), the profiling of a query *)
(* result (agents/data_query_agent.py, database/db_utils.py), the pipeline *)
(* of the orchestrator (agents/orchestrator.py,                            *)
(* agents/text_to_sql_agent.py) and the /api/query handler                 *)
(* (api/api_agent.py).                                                     *)
(*                                                                         *)
(* A Python str is a sequence of one-character strings, so that            *)
(* str.lower() and the substring test `kw in query_lower` are computed     *)
(* and not assumed.  A Python dict is a function (record) and              *)
(* d.get(k, default) is Get(d, k, default).  Python's None is the string   *)
(* "None", which is no column name of the model.                           *)
(***************************************************************************)
EXTENDS Integers, Sequences, FiniteSets, TLC

VARIABLES query, query_result, viz_result, pc,
          visualization_spec, locals, visualization, d3_spec,
          db_result, sql_conversation_history, conversation_history,
          request, result, invoked, prompt, response

\* db_result is what db_manager.execute_query returned;
\* sql_conversation_history is text_to_sql_agent_impl.conversation_history and
\* conversation_history the orchestrator's; request is the QueryRequest of
\* /api/query and response what the handler answered; result is the dict of
\* Orchestrator.process, invoked the agent methods it called, in order, and
\* prompt the arguments of sql_chain.run
api_vars == <<db_result, sql_conversation_history, conversation_history,
              request, result, invoked, prompt, response>>

vars == <<query, query_result, viz_result, pc,
          visualization_spec, locals, visualization, d3_spec,
          db_result, sql_conversation_history, conversation_history,
          request, result, invoked, prompt, response>>

-----------------------------------------------------------------------------
(* Bounds of the model *)

\* most columns of a query result
MaxCols == 6
\* most rows of a query result
MaxRows == 2
\* most words of a hint drawn from HintWords
MaxWords == 2
\* most rows of a query result handed to create_visualization
MaxRenderRows == 22
\* most rows of a table of SQLite that is profiled
MaxProfileRows == 3

-----------------------------------------------------------------------------
(* Python values and helpers *)

None == "None"

Get(d, k, default) == IF k \in DOMAIN d THEN d[k] ELSE default

\* {}
EmptyDict == [k \in {} |-> None]

\* s[:n]
Take(s, n) == SubSeq(s, 1, IF Len(s) < n THEN Len(s) ELSE n)

InSeq(x, s) == \E i \in 1..Len(s) : s[i] = x

UpperCase == <<"A","B","C","D","E","F","G","H","I","J","K","L","M","N","O","P","Q","R","S","T","U","V","W","X","Y","Z">>
LowerCase == <<"a","b","c","d","e","f","g","h","i","j","k","l","m","n","o","p","q","r","s","t","u","v","w","x","y","z">>

\* the lower-case letter of each upper-case ASCII letter
LowerOf ==
    [c \in {UpperCase[k] : k \in 1..Len(UpperCase)} |->
        LowerCase[CHOOSE k \in 1..Len(UpperCase) : UpperCase[k] = c]]

\* str.lower(), on the ASCII letters
lower(s) ==
    [i \in 1..Len(s) |-> IF s[i] \in DOMAIN LowerOf THEN LowerOf[s[i]] ELSE s[i]]

\* kw in s: kw occurs in s as a contiguous substring
Contains(s, kw) ==
    \E i \in 0..(Len(s) - Len(kw)) : \A j \in 1..Len(kw) : s[i + j] = kw[j]

-----------------------------------------------------------------------------
(* The keywords of the override, visualization_agent.py lines 116-128 *)

kw_distribution == <<"d","i","s","t","r","i","b","u","t","i","o","n">>
kw_histogram == <<"h","i","s","t","o","g","r","a","m">>
kw_scatter == <<"s","c","a","t","t","e","r">>
kw_correlation == <<"c","o","r","r","e","l","a","t","i","o","n">>
kw_relationship == <<"r","e","l","a","t","i","o","n","s","h","i","p">>
kw_line == <<"l","i","n","e">>
kw_trend == <<"t","r","e","n","d">>
kw_over_time == <<"o","v","e","r"," ","t","i","m","e">>
kw_pie == <<"p","i","e">>
kw_proportion == <<"p","r","o","p","o","r","t","i","o","n">>
kw_percentage == <<"p","e","r","c","e","n","t","a","g","e">>
kw_box == <<"b","o","x">>
kw_boxplot == <<"b","o","x","p","l","o","t">>
kw_heatmap == <<"h","e","a","t","m","a","p">>
kw_matrix == <<"m","a","t","r","i","x">>
kw_table == <<"t","a","b","l","e">>

\* f"Visualization for: {query}"
TitlePrefix == <<"V","i","s","u","a","l","i","z","a","t","i","o","n"," ","f","o","r",":"," ">>

-----------------------------------------------------------------------------
(* determine_visualization *)

\* lines 17-20: self.visualization_types; no method reads it
visualization_types ==
    <<"bar", "line", "scatter", "pie", "histogram", "box", "violin", "heatmap", "table">>

\* line 62
numeric_columns(columns, data_types) ==
    LET IsNum(col) == col \in DOMAIN data_types /\ data_types[col] \in {"integer", "float"}
    IN  SelectSeq(columns, IsNum)

\* line 63
categorical_columns(columns, data_types) ==
    LET IsCat(col) == col \in DOMAIN data_types /\ data_types[col] = "string"
    IN  SelectSeq(columns, IsCat)

\* line 64
datetime_columns(columns, data_types) ==
    LET IsDt(col) == col \in DOMAIN data_types /\ data_types[col] = "datetime"
    IN  SelectSeq(columns, IsDt)

\* lines 55-58: the values the locals start with
Defaults(columns) ==
    [viz_type |-> "bar",
     x_column |-> IF Len(columns) > 0 THEN columns[1] ELSE None,
     y_columns |-> <<>>,
     color_column |-> None]

\* HistogramCase without line 70: the type stays the initial one
HistogramCase_unset(columns) ==
    [Defaults(columns) EXCEPT !.x_column = columns[1]]

\* lines 69-71
HistogramCase(columns) ==
    [Defaults(columns) EXCEPT !.viz_type = "histogram", !.x_column = columns[1]]

\* PieCase without line 75: no value channel
PieCase_nocount(columns) ==
    [Defaults(columns) EXCEPT !.viz_type = "pie", !.x_column = columns[1]]

\* lines 72-75
PieCase(columns) ==
    [Defaults(columns) EXCEPT !.viz_type = "pie", !.x_column = columns[1],
                              !.y_columns = <<"count">>]

\* LineCase with x the last datetime column instead of the first
LineCase_lastdt(columns, numeric, datetime) ==
    [Defaults(columns) EXCEPT !.viz_type = "line", !.x_column = datetime[Len(datetime)],
                              !.y_columns = Take(numeric, 3)]

\* lines 81-84
LineCase(columns, numeric, datetime) ==
    [Defaults(columns) EXCEPT !.viz_type = "line", !.x_column = datetime[1],
                              !.y_columns = Take(numeric, 3)]

\* BarCase without the [:3] of line 92
BarCase_nolimit(columns, numeric, categorical) ==
    [Defaults(columns) EXCEPT !.viz_type = "bar", !.x_column = categorical[1],
                              !.y_columns = numeric]

\* lines 89-92
BarCase(columns, numeric, categorical) ==
    [Defaults(columns) EXCEPT !.viz_type = "bar", !.x_column = categorical[1],
                              !.y_columns = Take(numeric, 3)]

\* HeatmapCase without line 99: no color column
HeatmapCase_nocolor(columns, numeric, categorical) ==
    [Defaults(columns) EXCEPT !.viz_type = "heatmap", !.x_column = categorical[1],
                              !.y_columns = <<numeric[1]>>]

\* lines 95-99
HeatmapCase(columns, numeric, categorical) ==
    [Defaults(columns) EXCEPT !.viz_type = "heatmap", !.x_column = categorical[1],
                              !.y_columns = <<numeric[1]>>,
                              !.color_column = numeric[1]]

\* lines 102-108
ScatterCase(columns, numeric) ==
    [Defaults(columns) EXCEPT !.viz_type = "scatter", !.x_column = numeric[1],
                              !.y_columns = <<numeric[2]>>,
                              !.color_column = IF Len(numeric) > 2 THEN numeric[3] ELSE None]

\* TableCase without line 112: the type stays the initial one
TableCase_unset(columns) ==
    Defaults(columns)

\* lines 110-112
TableCase(columns) ==
    [Defaults(columns) EXCEPT !.viz_type = "table"]

\* lines 66-112: the if/elif chain over the column count and the column kinds.
\* The inner if/elif of lines 89-99 has no else: when neither inner test holds
\* the locals keep their initial values.
base_rule(columns, data_types) ==
    LET numeric == numeric_columns(columns, data_types)
        categorical == categorical_columns(columns, data_types)
        datetime == datetime_columns(columns, data_types)
    IN  IF Len(columns) = 1
        THEN IF InSeq(columns[1], numeric)
             THEN HistogramCase(columns)
             ELSE PieCase(columns)
        ELSE IF Len(columns) >= 2
        THEN IF Len(datetime) > 0 /\ Len(numeric) > 0
             THEN LineCase(columns, numeric, datetime)
             ELSE IF Len(categorical) > 0 /\ Len(numeric) > 0
             THEN IF Len(categorical) = 1 /\ Len(numeric) >= 1
                  THEN BarCase(columns, numeric, categorical)
                  ELSE IF Len(categorical) >= 2 /\ Len(numeric) = 1
                  THEN HeatmapCase(columns, numeric, categorical)
                  ELSE Defaults(columns)
             ELSE IF Len(numeric) >= 2
             THEN ScatterCase(columns, numeric)
             ELSE TableCase(columns)
        ELSE Defaults(columns)

\* keyword_override with the box test of line 124 moved to the front
keyword_override_boxfirst(query_lower, viz_type) ==
    IF Contains(query_lower, kw_box) \/ Contains(query_lower, kw_boxplot)
            \/ Contains(query_lower, kw_distribution)
    THEN "box"
    ELSE IF Contains(query_lower, kw_distribution) \/ Contains(query_lower, kw_histogram)
    THEN "histogram"
    ELSE IF Contains(query_lower, kw_scatter) \/ Contains(query_lower, kw_correlation)
            \/ Contains(query_lower, kw_relationship)
    THEN "scatter"
    ELSE IF Contains(query_lower, kw_line) \/ Contains(query_lower, kw_trend)
            \/ Contains(query_lower, kw_over_time)
    THEN "line"
    ELSE IF Contains(query_lower, kw_pie) \/ Contains(query_lower, kw_proportion)
            \/ Contains(query_lower, kw_percentage)
    THEN "pie"
    ELSE IF Contains(query_lower, kw_heatmap) \/ Contains(query_lower, kw_matrix)
    THEN "heatmap"
    ELSE IF Contains(query_lower, kw_table)
    THEN "table"
    ELSE viz_type

\* keyword_override giving the keyword 'boxplot' as the type of the box test
keyword_override_boxplot(query_lower, viz_type) ==
    IF Contains(query_lower, kw_distribution) \/ Contains(query_lower, kw_histogram)
    THEN "histogram"
    ELSE IF Contains(query_lower, kw_scatter) \/ Contains(query_lower, kw_correlation)
            \/ Contains(query_lower, kw_relationship)
    THEN "scatter"
    ELSE IF Contains(query_lower, kw_line) \/ Contains(query_lower, kw_trend)
            \/ Contains(query_lower, kw_over_time)
    THEN "line"
    ELSE IF Contains(query_lower, kw_pie) \/ Contains(query_lower, kw_proportion)
            \/ Contains(query_lower, kw_percentage)
    THEN "pie"
    ELSE IF Contains(query_lower, kw_box) \/ Contains(query_lower, kw_boxplot)
            \/ Contains(query_lower, kw_distribution)
    THEN "boxplot"
    ELSE IF Contains(query_lower, kw_heatmap) \/ Contains(query_lower, kw_matrix)
    THEN "heatmap"
    ELSE IF Contains(query_lower, kw_table)
    THEN "table"
    ELSE viz_type

\* lines 115-129: the elif chain over the lower-cased query
keyword_override(query_lower, viz_type) ==
    IF Contains(query_lower, kw_distribution) \/ Contains(query_lower, kw_histogram)
    THEN "histogram"
    ELSE IF Contains(query_lower, kw_scatter) \/ Contains(query_lower, kw_correlation)
            \/ Contains(query_lower, kw_relationship)
    THEN "scatter"
    ELSE IF Contains(query_lower, kw_line) \/ Contains(query_lower, kw_trend)
            \/ Contains(query_lower, kw_over_time)
    THEN "line"
    ELSE IF Contains(query_lower, kw_pie) \/ Contains(query_lower, kw_proportion)
            \/ Contains(query_lower, kw_percentage)
    THEN "pie"
    ELSE IF Contains(query_lower, kw_box) \/ Contains(query_lower, kw_boxplot)
            \/ Contains(query_lower, kw_distribution)
    THEN "box"
    ELSE IF Contains(query_lower, kw_heatmap) \/ Contains(query_lower, kw_matrix)
    THEN "heatmap"
    ELSE IF Contains(query_lower, kw_table)
    THEN "table"
    ELSE viz_type

\* build_spec with a y channel that follows the overridden type: a histogram
\* gets none
build_spec_typed_y(q, columns, data_types, base) ==
    LET numeric == numeric_columns(columns, data_types)
        viz_type == keyword_override(lower(q), base.viz_type)
    IN  [visualization_type |-> viz_type,
         x_column |-> base.x_column,
         y_columns |-> IF viz_type = "histogram" THEN <<>>
                       ELSE IF Len(base.y_columns) > 0 THEN base.y_columns
                       ELSE IF Len(numeric) > 0 THEN Take(numeric, 3) ELSE <<>>,
         color_column |-> base.color_column,
         title |-> TitlePrefix \o q,
         data_columns |-> columns,
         data_types |-> data_types]

\* build_spec without the default of line 135: y_columns as the rule left them
build_spec_nodefault(q, columns, data_types, base) ==
    LET viz_type == keyword_override(lower(q), base.viz_type)
    IN  [visualization_type |-> viz_type,
         x_column |-> base.x_column,
         y_columns |-> base.y_columns,
         color_column |-> base.color_column,
         title |-> TitlePrefix \o q,
         data_columns |-> columns,
         data_types |-> data_types]

\* lines 114-140: the override, then the specification dict
build_spec(q, columns, data_types, base) ==
    LET numeric == numeric_columns(columns, data_types)
        viz_type == keyword_override(lower(q), base.viz_type)
    IN  [visualization_type |-> viz_type,
         x_column |-> base.x_column,
         y_columns |-> IF Len(base.y_columns) > 0 THEN base.y_columns
                       ELSE IF Len(numeric) > 0 THEN Take(numeric, 3) ELSE <<>>,
         color_column |-> base.color_column,
         title |-> TitlePrefix \o q,
         data_columns |-> columns,
         data_types |-> data_types]

\* determine_visualization with line 45 testing the columns only
determine_visualization_columns_only(q, qr) ==
    IF ~Get(qr, "success", FALSE)
    THEN [success |-> FALSE, error |-> "Cannot determine visualization for failed query"]
    ELSE LET columns == Get(qr, "columns", <<>>)
             data_types == Get(qr, "data_types", EmptyDict)
         IN  IF Len(columns) = 0
             THEN [success |-> FALSE, error |-> "No data available for visualization"]
             ELSE [success |-> TRUE,
                   visualization_spec |->
                       build_spec(q, columns, data_types, base_rule(columns, data_types))]

\* lines 33-145
determine_visualization(q, qr) ==
    IF ~Get(qr, "success", FALSE)
    THEN [success |-> FALSE, error |-> "Cannot determine visualization for failed query"]
    ELSE LET data == Get(qr, "data", <<>>)
             columns == Get(qr, "columns", <<>>)
             data_types == Get(qr, "data_types", EmptyDict)
         IN  IF Len(data) = 0 \/ Len(columns) = 0
             THEN [success |-> FALSE, error |-> "No data available for visualization"]
             ELSE [success |-> TRUE,
                   visualization_spec |->
                       build_spec(q, columns, data_types, base_rule(columns, data_types))]

-----------------------------------------------------------------------------
(* create_visualization, visualization_agent.py lines 153-329 *)

\* line 237: a pie of more rows than this is cut
PieLimit == 10
\* line 240: the rows a cut pie keeps
PieTop == 9
\* line 268: the most distinct x values of a heatmap
HeatmapLimit == 20

\* df.columns of pd.DataFrame(data): the keys of the row dicts, which db_utils
\* builds in the order of the result's columns
df_columns(qr) == Get(qr, "columns", <<>>)

\* pd.api.types.is_numeric_dtype(df[col]): int64 or float64
is_numeric_dtype(data, col) ==
    \A i \in 1..Len(data) : data[i][col].kind \in {"integer", "float"}

\* lines 177-197 without the auto-selection of lines 189-194
reconcile_no_auto(qr, vs) ==
    LET data == Get(qr, "data", <<>>)
        columns == df_columns(qr)
        x_column == Get(vs, "x_column", None)
        y_columns == Get(vs, "y_columns", <<>>)
        color_column == Get(vs, "color_column", None)
        InData(col) == InSeq(col, columns)
    IN  IF x_column # None /\ ~InData(x_column)
        THEN [raised |-> TRUE]
        ELSE [raised |-> FALSE,
              viz_type |-> Get(vs, "visualization_type", "bar"),
              x_column |-> x_column,
              y_columns |-> SelectSeq(y_columns, InData),
              color_column |-> IF color_column # None /\ ~InData(color_column)
                               THEN None ELSE color_column,
              title |-> Get(vs, "title", "Visualization")]

\* lines 177-197: the locals after the reconciliation with the data columns.
\* Line 186 evaluates `df.columns[0] if df.columns else None`: the truth value
\* of a pandas Index raises ValueError, so an x_column that is no data column
\* ends the call in the except clause.
reconcile(qr, vs) ==
    LET data == Get(qr, "data", <<>>)
        columns == df_columns(qr)
        x_column == Get(vs, "x_column", None)
        y_columns == Get(vs, "y_columns", <<>>)
        color_column == Get(vs, "color_column", None)
        InData(col) == InSeq(col, columns)
        kept == SelectSeq(y_columns, InData)
        Auto(col) == col # x_column /\ is_numeric_dtype(data, col)
    IN  IF x_column # None /\ ~InData(x_column)
        THEN [raised |-> TRUE]
        ELSE [raised |-> FALSE,
              viz_type |-> Get(vs, "visualization_type", "bar"),
              x_column |-> x_column,
              y_columns |-> IF Len(kept) = 0 /\ Len(columns) > 1
                            THEN Take(SelectSeq(columns, Auto), 3)
                            ELSE kept,
              color_column |-> IF color_column # None /\ ~InData(color_column)
                               THEN None ELSE color_column,
              title |-> Get(vs, "title", "Visualization")]

\* lines 325-329
render_error == [success |-> FALSE, error |-> "Error creating visualization"]

\* begin_render without the test of line 168
begin_render_unchecked(qr, vs) ==
    LET l == reconcile(qr, vs)
    IN  IF l.raised
        THEN [returned |-> TRUE, result |-> render_error]
        ELSE [returned |-> FALSE, locals |-> l]

\* lines 164-197: the return without data, else the reconciliation, which
\* ends in the except clause of lines 325-329 when it raises
begin_render(qr, vs) ==
    IF Len(Get(qr, "data", <<>>)) = 0
    THEN [returned |-> TRUE,
          result |-> [success |-> FALSE, error |-> "No data available for visualization"]]
    ELSE LET l == reconcile(qr, vs)
         IN  IF l.raised
             THEN [returned |-> TRUE, result |-> render_error]
             ELSE [returned |-> FALSE, locals |-> l]

\* a plotly figure: the trace, the columns of its channels, the series of a
\* melted frame, the labels and values of a pie, the header of a table
Figure(trace, x, y, color) ==
    [trace |-> trace, x |-> x, y |-> y, color |-> color,
     series |-> <<>>, slots |-> <<>>, header |-> <<>>]

\* go.Figure(data=[go.Table(...)]), lines 273-299
TableFigure(columns) ==
    [Figure("table", None, None, None) EXCEPT !.header = columns]

\* the string "Other" of line 242; the strings of the data have ordinals >= 1
Other == [kind |-> "string", value |-> 0]

\* the value of a pie slot when px.pie gets values=None: the row counts once
CountOne == [kind |-> "count", value |-> 1]

\* df.sort_values(key, ascending=False): the position of row i.  Rows of equal
\* key keep their order or swap it: the default quicksort promises neither.
Position(data, key, tie, i) ==
    1 + Cardinality({j \in 1..Len(data) :
            \/ data[j][key].value > data[i][key].value
            \/ /\ data[j][key].value = data[i][key].value
               /\ IF tie = "kept" THEN j < i ELSE j > i})

sort_values(data, key, tie) ==
    [p \in 1..Len(data) |->
        data[CHOOSE i \in 1..Len(data) : Position(data, key, tie, i) = p]]

RECURSIVE SumValues(_)
SumValues(cells) ==
    IF Len(cells) = 0 THEN 0 ELSE cells[1].value + SumValues(Tail(cells))

\* Series.sum(): the sum of numbers, the concatenation of strings
series_sum(cells) ==
    IF \A i \in 1..Len(cells) : cells[i].kind \in {"integer", "float"}
    THEN [kind |-> IF \E i \in 1..Len(cells) : cells[i].kind = "float"
                   THEN "float" ELSE "integer",
          value |-> SumValues(cells)]
    ELSE [kind |-> "concat", value |-> [i \in 1..Len(cells) |-> cells[i].value]]

\* lines 236-245.  With no y column the sort key is df.columns[1], an
\* IndexError on a frame of one column.  The dict of line 242 has one key when
\* the key column is x_column: the sum then replaces "Other".
pie_figure(data, columns, l, tie) ==
    LET has_y == Len(l.y_columns) > 0
        Slot(row) == [label |-> row[l.x_column],
                      value |-> IF has_y THEN row[l.y_columns[1]] ELSE CountOne]
    IN  IF Len(data) > PieLimit
        THEN IF ~has_y /\ Len(columns) < 2
             THEN [raised |-> TRUE]
             ELSE LET key == IF has_y THEN l.y_columns[1] ELSE columns[2]
                      sorted == sort_values(data, key, tie)
                      rest == SubSeq(sorted, PieTop + 1, Len(sorted))
                      other_sum == series_sum([i \in 1..Len(rest) |-> rest[i][key]])
                      other_slot ==
                          [label |-> IF key = l.x_column THEN other_sum ELSE Other,
                           value |-> IF has_y THEN other_sum ELSE CountOne]
                  IN  [raised |-> FALSE,
                       figure |->
                           [Figure("pie", l.x_column,
                                   IF has_y THEN l.y_columns[1] ELSE None, None)
                            EXCEPT !.slots =
                                [i \in 1..PieTop |-> Slot(sorted[i])] \o <<other_slot>>]]
        ELSE [raised |-> FALSE,
              figure |->
                  [Figure("pie", l.x_column,
                          IF has_y THEN l.y_columns[1] ELSE None, None)
                   EXCEPT !.slots = [i \in 1..Len(data) |-> Slot(data[i])]]]

\* heatmap_figure raising for a spec without x or y column instead of lines
\* 278-284
heatmap_figure_unresolved(data, columns, l, pivot) ==
    IF l.x_column # None /\ Len(l.y_columns) >= 1
    THEN IF Cardinality({data[i][l.x_column] : i \in 1..Len(data)}) <= HeatmapLimit
            /\ Len(data) > 0
         THEN IF pivot = "raise"
              THEN [raised |-> TRUE]
              ELSE [raised |-> FALSE,
                    figure |-> Figure("heatmap", l.x_column, l.y_columns[1],
                                      IF l.color_column # None THEN l.color_column
                                      ELSE l.y_columns[1])]
         ELSE [raised |-> FALSE, figure |-> TableFigure(columns)]
    ELSE [raised |-> TRUE]

\* lines 265-284.  pivot is what df.pivot_table and px.imshow do at lines
\* 269-270: "figure" or "raise".
heatmap_figure(data, columns, l, pivot) ==
    IF l.x_column # None /\ Len(l.y_columns) >= 1
    THEN IF Cardinality({data[i][l.x_column] : i \in 1..Len(data)}) <= HeatmapLimit
            /\ Len(data) > 0
         THEN IF pivot = "raise"
              THEN [raised |-> TRUE]
              ELSE [raised |-> FALSE,
                    figure |-> Figure("heatmap", l.x_column, l.y_columns[1],
                                      IF l.color_column # None THEN l.color_column
                                      ELSE l.y_columns[1])]
         ELSE [raised |-> FALSE, figure |-> TableFigure(columns)]
    ELSE [raised |-> FALSE, figure |-> TableFigure(columns)]

\* a px call over one y column or none, lines 209-215, 223-227, 251-263
xy_figure(trace, l) ==
    IF Len(l.y_columns) > 0
    THEN Figure(trace, l.x_column, l.y_columns[1], l.color_column)
    ELSE Figure(trace, l.x_column, None, None)

\* lines 202-227: bar and line; more than one y column is melted into the
\* columns Category and Value
series_figure(trace, l) ==
    IF Len(l.y_columns) > 1
    THEN [Figure(trace, l.x_column, "Value", "Category") EXCEPT !.series = l.y_columns]
    ELSE xy_figure(trace, l)

\* lines 199-299: the figure of each visualization type
build_figure(data, columns, l, tie, pivot) ==
    IF l.viz_type \in {"bar", "line"}
    THEN [raised |-> FALSE, figure |-> series_figure(l.viz_type, l)]
    ELSE IF l.viz_type = "scatter"
    THEN [raised |-> FALSE,
          figure |-> IF Len(l.y_columns) >= 1
                     THEN Figure("scatter", l.x_column, l.y_columns[1], l.color_column)
                     ELSE Figure("scatter", columns[1],
                                 IF Len(columns) > 1 THEN columns[2] ELSE columns[1],
                                 None)]
    ELSE IF l.viz_type = "pie"
    THEN pie_figure(data, columns, l, tie)
    ELSE IF l.viz_type = "histogram"
    THEN [raised |-> FALSE,
          figure |-> Figure("histogram", l.x_column, None, l.color_column)]
    ELSE IF l.viz_type \in {"box", "violin"}
    THEN [raised |-> FALSE, figure |-> xy_figure(l.viz_type, l)]
    ELSE IF l.viz_type = "heatmap"
    THEN heatmap_figure(data, columns, l, pivot)
    ELSE [raised |-> FALSE, figure |-> TableFigure(columns)]

\* lines 301-329 without the except clause of lines 325-329: what was raised
\* leaves the call
render_result_unhandled(l, built) ==
    IF built.raised
    THEN built
    ELSE [success |-> TRUE, figure |-> built.figure,
          visualization_type |-> l.viz_type, title |-> l.title]

\* lines 301-329: the returned dict; figure_json is the figure serialised
render_result(l, built) ==
    IF built.raised
    THEN render_error
    ELSE [success |-> TRUE, figure |-> built.figure,
          visualization_type |-> l.viz_type, title |-> l.title]

\* create_visualization, lines 164-329, as one call
create_visualization(qr, vs, tie, pivot) ==
    LET began == begin_render(qr, vs)
    IN  IF began.returned
        THEN began.result
        ELSE render_result(began.locals,
                 build_figure(qr.data, df_columns(qr), began.locals, tie, pivot))

\* lines 179-194 with y_columns filtered and extended in place, in the list
\* of the spec
spec_after_reconcile_in_place(qr, vs) ==
    LET l == reconcile(qr, vs)
    IN  IF l.raised THEN vs ELSE [vs EXCEPT !.y_columns = l.y_columns]

\* the visualization_spec argument after lines 177-197.  Line 179 binds
\* y_columns to the list of the spec, line 188 binds it to the new list of a
\* comprehension, and the append of line 192 reaches that one; x_column and
\* color_column are rebound, never written to the spec.
spec_after_reconcile(qr, vs) == vs

-----------------------------------------------------------------------------
(* create_d3_spec, api/api_agent.py lines 115-165 *)

\* create_d3_spec with a mark for every type: the type itself where lines
\* 154-163 name none
create_d3_spec_all_marked(data, columns, viz_type, viz_spec) ==
    IF Len(data) = 0 \/ Len(columns) = 0
    THEN None
    ELSE LET x_column == Get(viz_spec, "x_column", None)
             y_columns == Get(viz_spec, "y_columns", <<>>)
             color_column == Get(viz_spec, "color_column", None)
             x == [field |-> x_column,
                   type |-> IF viz_type \in {"bar", "pie"}
                            THEN "nominal" ELSE "quantitative"]
             encoding ==
                 IF Len(y_columns) > 0
                 THEN IF color_column # None
                      THEN [x |-> x,
                            y |-> [field |-> y_columns[1], type |-> "quantitative"],
                            color |-> [field |-> color_column]]
                      ELSE [x |-> x,
                            y |-> [field |-> y_columns[1], type |-> "quantitative"]]
                 ELSE IF color_column # None
                      THEN [x |-> x, color |-> [field |-> color_column]]
                      ELSE [x |-> x]
             WithMark(mark) ==
                 [type |-> viz_type, data |-> data, encoding |-> encoding, mark |-> mark]
         IN  IF viz_type = "bar" THEN WithMark("bar")
             ELSE IF viz_type = "line" THEN WithMark("line")
             ELSE IF viz_type = "scatter" THEN WithMark("circle")
             ELSE IF viz_type = "pie" THEN WithMark("arc")
             ELSE IF viz_type = "heatmap" THEN WithMark("rect")
             ELSE WithMark(viz_type)

\* create_d3_spec with the nominal x type for bar only
create_d3_spec_bar_only(data, columns, viz_type, viz_spec) ==
    IF Len(data) = 0 \/ Len(columns) = 0
    THEN None
    ELSE LET x_column == Get(viz_spec, "x_column", None)
             y_columns == Get(viz_spec, "y_columns", <<>>)
             color_column == Get(viz_spec, "color_column", None)
             x == [field |-> x_column,
                   type |-> IF viz_type = "bar" THEN "nominal" ELSE "quantitative"]
             encoding ==
                 IF Len(y_columns) > 0
                 THEN IF color_column # None
                      THEN [x |-> x,
                            y |-> [field |-> y_columns[1], type |-> "quantitative"],
                            color |-> [field |-> color_column]]
                      ELSE [x |-> x,
                            y |-> [field |-> y_columns[1], type |-> "quantitative"]]
                 ELSE IF color_column # None
                      THEN [x |-> x, color |-> [field |-> color_column]]
                      ELSE [x |-> x]
             base == [type |-> viz_type, data |-> data, encoding |-> encoding]
             WithMark(mark) ==
                 [type |-> viz_type, data |-> data, encoding |-> encoding, mark |-> mark]
         IN  IF viz_type = "bar" THEN WithMark("bar")
             ELSE IF viz_type = "line" THEN WithMark("line")
             ELSE IF viz_type = "scatter" THEN WithMark("circle")
             ELSE IF viz_type = "pie" THEN WithMark("arc")
             ELSE IF viz_type = "heatmap" THEN WithMark("rect")
             ELSE base

\* lines 128-165: None without data or columns, else the dict with type, data,
\* encoding and, for five types, mark
create_d3_spec(data, columns, viz_type, viz_spec) ==
    IF Len(data) = 0 \/ Len(columns) = 0
    THEN None
    ELSE LET x_column == Get(viz_spec, "x_column", None)
             y_columns == Get(viz_spec, "y_columns", <<>>)
             color_column == Get(viz_spec, "color_column", None)
             x == [field |-> x_column,
                   type |-> IF viz_type \in {"bar", "pie"}
                            THEN "nominal" ELSE "quantitative"]
             encoding ==
                 IF Len(y_columns) > 0
                 THEN IF color_column # None
                      THEN [x |-> x,
                            y |-> [field |-> y_columns[1], type |-> "quantitative"],
                            color |-> [field |-> color_column]]
                      ELSE [x |-> x,
                            y |-> [field |-> y_columns[1], type |-> "quantitative"]]
                 ELSE IF color_column # None
                      THEN [x |-> x, color |-> [field |-> color_column]]
                      ELSE [x |-> x]
             base == [type |-> viz_type, data |-> data, encoding |-> encoding]
             WithMark(mark) ==
                 [type |-> viz_type, data |-> data, encoding |-> encoding, mark |-> mark]
         IN  IF viz_type = "bar" THEN WithMark("bar")
             ELSE IF viz_type = "line" THEN WithMark("line")
             ELSE IF viz_type = "scatter" THEN WithMark("circle")
             ELSE IF viz_type = "pie" THEN WithMark("arc")
             ELSE IF viz_type = "heatmap" THEN WithMark("rect")
             ELSE base

-----------------------------------------------------------------------------
(* db_manager.execute_query, database/db_utils.py lines 21-41, and
   DataQueryAgent.execute_query, agents/data_query_agent.py lines 18-90.
   A value of a row is a cell: an int, a float (in a row of SQLite, or an int
   that pandas holds in a float64 column: integral), a str, None, or NaN. *)

\* float('nan'): what a float64 column holds for NULL or None
NaN == [kind |-> "nan", value |-> 0]

\* the values of a column of the rows
column_cells(data, col) == [i \in 1..Len(data) |-> data[i][col]]

\* the dtype pandas infers for a column of these values (pd.read_sql_query at
\* db_utils.py line 26, pd.DataFrame(data) at data_query_agent.py line 48)
dtype_of(cells) ==
    LET kinds == {cells[i].kind : i \in 1..Len(cells)}
    IN  IF kinds = {"integer"} THEN "int64"
        ELSE IF kinds \subseteq {"integer", "float", "null", "nan"}
                /\ kinds \cap {"integer", "float", "nan"} # {}
        THEN "float64"
        ELSE IF kinds # {} /\ kinds \subseteq {"datetime", "null"}
                /\ "datetime" \in kinds
        THEN "datetime64"
        ELSE "object"

\* a value as a column of this dtype holds it and hands it out
as_dtype(cell, dtype) ==
    IF dtype = "float64"
    THEN IF cell.kind \in {"null", "nan"} THEN NaN
         ELSE IF cell.kind = "integer"
         THEN [kind |-> "float", value |-> cell.value, integral |-> TRUE]
         ELSE cell
    ELSE cell

\* the frame of the rows: every column in its dtype
DataFrame(data, columns) ==
    LET names == {columns[k] : k \in 1..Len(columns)}
    IN  [i \in 1..Len(data) |->
            [col \in names |->
                as_dtype(data[i][col], dtype_of(column_cells(data, col)))]]

\* db_utils.py lines 26-36: the frame of the rows SQLite gave, as records
db_execute_query(rows, columns) ==
    [raised |-> FALSE,
     data |-> DataFrame(rows, columns),
     columns |-> columns,
     row_count |-> Len(rows)]

\* db_utils.py lines 37-39: the query could not be run
db_raised == [raised |-> TRUE]

\* data_query_agent.py lines 53-61: the type of a column of the frame.  Line 54
\* asks `isinstance(x, int) or x is None` of the values the column hands out:
\* a float64 column hands out floats, NaN for a missing value.
profile_type(cells) ==
    LET dtype == dtype_of(cells)
    IN  IF dtype \in {"int64", "float64"}
        THEN IF \A i \in 1..Len(cells) : cells[i].kind \in {"integer", "null"}
             THEN "integer" ELSE "float"
        ELSE IF dtype = "datetime64" THEN "datetime"
        ELSE "string"

\* data_query_agent.py lines 28-90.  summary_stats is left out: no modelled
\* code reads it.
execute_query(db) ==
    IF db.raised
    THEN [success |-> FALSE, error |-> "Error executing query"]
    ELSE IF db.row_count = 0
    THEN [success |-> TRUE, data |-> <<>>, columns |-> db.columns, row_count |-> 0,
          message |-> "Query executed successfully but returned no results"]
    ELSE LET df == DataFrame(db.data, db.columns)
             names == {db.columns[k] : k \in 1..Len(db.columns)}
         IN  [success |-> TRUE,
              data |-> db.data,
              columns |-> db.columns,
              row_count |-> db.row_count,
              data_types |-> IF Len(db.data) = 0 THEN EmptyDict
                             ELSE [col \in names |-> profile_type(column_cells(df, col))]]

-----------------------------------------------------------------------------
(* TextToSQLAgent.generate_sql (agents/text_to_sql_agent.py lines 92-144),
   Orchestrator.process, update_conversation_history and reset_conversation
   (agents/orchestrator.py lines 75-216), and the /api/query handler
   (api/api_agent.py lines 58-113).  A SQL text is a string: what the LLM
   answered, after the clean-up of lines 119-123. *)

\* text_to_sql_agent.py line 132, orchestrator.py line 201: the most entries
\* of a conversation history
HistoryLimit == 5
\* text_to_sql_agent.py line 107: the entries of the history put in the prompt
ContextLimit == 3

\* the slice s[-n:]
Last(s, n) == IF Len(s) <= n THEN s ELSE SubSeq(s, Len(s) - n + 1, Len(s))

\* text_to_sql_agent.py lines 102-144.  llm is what sql_chain.run does: it
\* raises, or it answers a SQL text.  The prompt holds the query and the last
\* entries of the history (lines 104-109; the schema is left out).
generate_sql(q, history, llm) ==
    LET asked == [query |-> q, conversation_history |-> Last(history, ContextLimit)]
    IN  IF llm = "raise"
        THEN [sql_result |-> [success |-> FALSE, error |-> "Error generating SQL"],
              conversation_history |-> history,
              prompt |-> asked]
        ELSE [sql_result |-> [success |-> TRUE, sql_query |-> llm],
              conversation_history |->
                  Last(Append(history, [query |-> q, sql_query |-> llm]), HistoryLimit),
              prompt |-> asked]

\* orchestrator.py lines 191-202 keeping the first entries instead of the last
update_conversation_history_oldest(history, q, res) ==
    LET appended ==
            Append(history,
                   [query |-> q,
                    sql_query |-> res.sql_query,
                    visualization_type |-> res.visualization_spec.visualization_type])
    IN  IF Len(appended) > HistoryLimit THEN SubSeq(appended, 1, HistoryLimit)
        ELSE appended

\* orchestrator.py lines 191-202
update_conversation_history(history, q, res) ==
    Last(Append(history,
                [query |-> q,
                 sql_query |-> res.sql_query,
                 visualization_type |-> res.visualization_spec.visualization_type]),
         HistoryLimit)

\* orchestrator.py lines 101-102 and the like without the assignment of
\* success
failed_step_still_success(res, step_result, default) ==
    [res EXCEPT !.error = Get(step_result, "error", default)]

\* orchestrator.py lines 101-102, 111-112, 123-124, 135-136: the result of a
\* call that ends at a failed step
failed_step(res, step_result, default) ==
    [res EXCEPT !.error = Get(step_result, "error", default), !.success = FALSE]

\* orchestrator.py lines 85-181: the result, the agent methods invoked, and
\* the histories after the call.  llm and db are what the LLM and the database
\* do, tie and pivot what pandas does in create_visualization.  The CrewAI
\* tasks of lines 142-171 are built and never run, inside their own try.
process(q, sql_history, history, llm, db, tie, pivot) ==
    LET initial == [query |-> q, sql_query |-> None, query_result |-> None,
                    visualization_spec |-> None, visualization |-> None,
                    error |-> None, success |-> TRUE]
        generated == generate_sql(q, sql_history, llm)
        sql_result == generated.sql_result
        Ended(res, steps, new_history, db_seen) ==
            [result |-> res, invoked |-> steps,
             sql_conversation_history |-> generated.conversation_history,
             conversation_history |-> new_history,
             prompt |-> generated.prompt,
             db_result |-> db_seen]
    IN  IF ~Get(sql_result, "success", FALSE)
        THEN Ended(failed_step(initial, sql_result, "Error generating SQL"),
                      <<"generate_sql">>, history, None)
        ELSE
        LET with_sql == [initial EXCEPT !.sql_query = sql_result.sql_query]
            executed == execute_query(db)
        IN  IF ~Get(executed, "success", FALSE)
            THEN Ended(failed_step(with_sql, executed, "Error executing query"),
                          <<"generate_sql", "execute_query">>, history, db)
            ELSE
            LET with_result == [with_sql EXCEPT !.query_result = executed]
                viz_spec_result == determine_visualization(q, executed)
            IN  IF ~Get(viz_spec_result, "success", FALSE)
                THEN Ended(failed_step(with_result, viz_spec_result,
                                          "Error determining visualization"),
                              <<"generate_sql", "execute_query",
                                "determine_visualization">>, history, db)
                ELSE
                LET with_spec == [with_result EXCEPT !.visualization_spec =
                                      viz_spec_result.visualization_spec]
                    rendered == create_visualization(executed,
                                    with_spec.visualization_spec, tie, pivot)
                    steps == <<"generate_sql", "execute_query",
                               "determine_visualization", "create_visualization">>
                IN  IF ~Get(rendered, "success", FALSE)
                    THEN Ended(failed_step(with_spec, rendered,
                                              "Error creating visualization"),
                                  steps, history, db)
                    ELSE LET done == [with_spec EXCEPT !.visualization = rendered]
                         IN  Ended(done, steps,
                                      update_conversation_history(history, q, done), db)

\* HTTPException(status_code=500), api_agent.py lines 112-113
HTTPError == [kind |-> "HTTPException", status_code |-> 500]

\* api_agent.py lines 76-113: the answer for the result of process.
\* QueryResponse declares sql_query: str (line 35), and result.get("sql_query",
\* "") is None when the key holds None: the constructor raises a validation
\* error, which line 112 turns into the HTTPException.
query_response(req, res) ==
    IF ~res.success
    THEN IF Get(res, "sql_query", "") = None
         THEN HTTPError
         ELSE [kind |-> "QueryResponse",
               query |-> req.query,
               sql_query |-> Get(res, "sql_query", ""),
               success |-> FALSE,
               error |-> Get(res, "error", "Unknown error occurred"),
               visualization_type |-> None,
               row_count |-> None,
               d3_spec |-> None]
    ELSE LET queried == res.query_result
             spec == res.visualization_spec
         IN  [kind |-> "QueryResponse",
              query |-> req.query,
              sql_query |-> res.sql_query,
              success |-> TRUE,
              error |-> None,
              visualization_type |-> Get(spec, "visualization_type", ""),
              row_count |-> Get(queried, "row_count", 0),
              d3_spec |-> create_d3_spec(Get(queried, "data", <<>>),
                                         Get(queried, "columns", <<>>),
                                         Get(spec, "visualization_type", ""),
                                         spec)]

-----------------------------------------------------------------------------
(* The inputs: query results as execute_query returns them, and hints *)

\* the data_types execute_query assigns, data_query_agent.py lines 52-61
ColumnTypes == {"integer", "float", "string", "datetime"}

\* column names, in the order of the result; "count" is a name a result may carry
ColumnPool == <<"category", "total", "region", "amount", "count", "date", "price">>

\* a cell of a row: the kind of the Python value and an ordinal standing for it
Cell(type, i) == [kind |-> type, value |-> i]

\* data_query_agent.py lines 37-44 (no row) and 77-84 (rows); types[k] is the
\* type of the k-th column.  summary_stats is left out: no modelled code reads it.
QueryResult(types, nrows) ==
    LET columns == SubSeq(ColumnPool, 1, Len(types))
        names == {columns[k] : k \in 1..Len(columns)}
        TypeOf(col) == types[CHOOSE k \in 1..Len(columns) : columns[k] = col]
    IN  IF nrows = 0
        THEN [success |-> TRUE, data |-> <<>>, columns |-> columns, row_count |-> 0,
              message |-> "Query executed successfully but returned no results"]
        ELSE [success |-> TRUE,
              data |-> [i \in 1..nrows |-> [col \in names |-> Cell(TypeOf(col), i)]],
              columns |-> columns,
              row_count |-> nrows,
              data_types |-> [col \in names |-> TypeOf(col)]]

\* data_query_agent.py lines 86-90
FailedQueryResult == [success |-> FALSE, error |-> "Error executing query"]

\* every assignment of types to at most MaxCols columns
AllShapes == UNION {[1..n -> ColumnTypes] : n \in 0..MaxCols}

\* one result shape for each way through lines 67-112
SampleShapes ==
    {t \in {<<"string">>, <<"float">>,
            <<"datetime", "integer">>,
            <<"string", "integer">>,
            <<"string", "string", "float">>,
            <<"integer", "float", "integer">>,
            <<"string", "string">>,
            <<"string", "string", "integer", "float">>} : Len(t) <= MaxCols}

\* a result with rows has a column
Results(shapes) ==
    {QueryResult(t, n) : t \in shapes, n \in 1..MaxRows}
        \cup {QueryResult(t, 0) : t \in shapes}

w_show == <<"s","h","o","w">>
w_sales == <<"s","a","l","e","s">>
w_Trend == <<"T","r","e","n","d">>
w_outline == <<"o","u","t","l","i","n","e">>
w_over == <<"o","v","e","r">>
w_time == <<"t","i","m","e">>

\* the words hints are made of: every keyword, a capitalised keyword, a word
\* that holds a keyword inside it, and words that hold none
HintWords ==
    {kw_distribution, kw_histogram, kw_scatter, kw_correlation, kw_relationship,
     kw_line, kw_trend, w_over, w_time, kw_pie, kw_proportion, kw_percentage,
     kw_box, kw_boxplot, kw_heatmap, kw_matrix, kw_table,
     w_sales, w_Trend, w_outline}

\* " ".join(words)
RECURSIVE Join(_)
Join(words) ==
    IF Len(words) = 0 THEN <<>>
    ELSE IF Len(words) = 1 THEN words[1]
    ELSE words[1] \o <<" ">> \o Join(Tail(words))

\* every hint of at most MaxWords words
AllHints == {Join(ws) : ws \in UNION {[1..k -> HintWords] : k \in 0..MaxWords}}

\* a few hints, with and without keywords
SampleHints ==
    {Join(ws) : ws \in {<<>>, <<w_show, w_sales>>, <<kw_distribution>>, <<w_Trend>>,
                        <<kw_box, kw_trend>>, <<kw_matrix>>, <<kw_table, w_sales>>,
                        <<kw_correlation>>, <<kw_pie>>}}

-----------------------------------------------------------------------------
(* The state machine: a query and its result arrive, the selection is called *)

\* a new Orchestrator (orchestrator.py lines 27-32, text_to_sql_agent.py line
\* 30) that no request has reached
NoRequest ==
    /\ db_result = None
    /\ sql_conversation_history = <<>>
    /\ conversation_history = <<>>
    /\ request = None
    /\ result = None
    /\ invoked = <<>>
    /\ prompt = None
    /\ response = None

Init ==
    /\ \/ /\ query_result \in Results(AllShapes)
          /\ query \in SampleHints
       \/ /\ query_result \in Results(SampleShapes) \cup {FailedQueryResult}
          /\ query \in AllHints
    /\ viz_result = None
    /\ pc = "start"
    /\ visualization_spec = None
    /\ locals = None
    /\ visualization = None
    /\ d3_spec = None
    /\ NoRequest

\* VisualizationAgent.determine_visualization(query, query_result)
DetermineVisualization ==
    /\ pc = "start"
    /\ viz_result' = determine_visualization(query, query_result)
    /\ pc' = "done"
    /\ UNCHANGED <<query, query_result, visualization_spec, locals, visualization, d3_spec>>
    /\ UNCHANGED api_vars

Next == DetermineVisualization

Spec == Init /\ [][Next]_vars

-----------------------------------------------------------------------------
(* The inputs of create_visualization and create_d3_spec *)

\* the value of row i in the column at position k: numbers in no sorted order,
\* the strings of the first column distinct, those of a later string column
\* with one repeated value
RenderCell(type, k, i) ==
    IF type \in {"integer", "float"}
    THEN [kind |-> type, value |-> ((i * 7) + k) % 29]
    ELSE [kind |-> type, value |-> IF k > 1 /\ i = 1 THEN 2 ELSE i]

\* a query result as QueryResult gives it, with these cells
RenderResult(types, nrows) ==
    LET qr == QueryResult(types, nrows)
        columns == qr.columns
        names == {columns[k] : k \in 1..Len(columns)}
        PositionOf(col) == CHOOSE k \in 1..Len(columns) : columns[k] = col
    IN  IF nrows = 0
        THEN qr
        ELSE [qr EXCEPT !.data =
                 [i \in 1..nrows |->
                     [col \in names |-> RenderCell(types[PositionOf(col)], PositionOf(col), i)]]]

\* the results rendered: SQLite results carry numbers and strings
RenderShapes ==
    {<<"string">>, <<"integer">>,
     <<"string", "integer">>,
     <<"string", "string">>,
     <<"string", "string", "float">>,
     <<"integer", "float", "integer">>,
     <<"string", "integer", "float", "integer", "integer">>}

RenderResults == {RenderResult(t, n) : t \in RenderShapes, n \in 0..MaxRenderRows}

\* the specs determine_visualization gives for the result
SelectedSpecs(qr) ==
    {determine_visualization(h, qr).visualization_spec :
        h \in {h \in SampleHints : determine_visualization(h, qr).success}}

\* specs of any type whose channels name data columns, no column, or a column
\* the data does not have
ForeignSpecs(qr) ==
    LET columns == qr.columns
        first == columns[1]
        last == columns[Len(columns)]
    IN  {[visualization_type |-> t, x_column |-> x, y_columns |-> y, color_column |-> c,
          title |-> TitlePrefix, data_columns |-> columns,
          data_types |-> Get(qr, "data_types", EmptyDict)] :
            t \in {visualization_types[k] : k \in 1..Len(visualization_types)},
            x \in {first, last, "missing"},
            y \in {<<>>, <<last>>, <<"missing">>, <<"missing", last>>, <<last, first>>},
            c \in {None, last, "missing"}}

-----------------------------------------------------------------------------
(* The state machine of a rendering: create_visualization in its two parts,
   then create_d3_spec *)

InitRender ==
    /\ query_result \in RenderResults
    /\ visualization_spec \in SelectedSpecs(query_result) \cup ForeignSpecs(query_result)
    /\ query = <<>>
    /\ viz_result = None
    /\ locals = None
    /\ visualization = None
    /\ d3_spec = None
    /\ pc = "render"
    /\ NoRequest

\* create_visualization, lines 164-197: no data, or the reconciliation
Reconcile ==
    /\ pc = "render"
    /\ LET began == begin_render(query_result, visualization_spec)
       IN  IF began.returned
           THEN /\ visualization' = began.result
                /\ pc' = "rendered"
                /\ UNCHANGED locals
           ELSE /\ locals' = began.locals
                /\ pc' = "build"
                /\ UNCHANGED visualization
    /\ UNCHANGED <<query, query_result, viz_result, visualization_spec, d3_spec>>
    /\ UNCHANGED api_vars

\* create_visualization, lines 199-329: the figure and the returned dict
BuildFigure ==
    /\ pc = "build"
    /\ \E tie \in {"kept", "swapped"}, pivot \in {"figure", "raise"} :
           visualization' =
               render_result(locals,
                   build_figure(query_result.data, df_columns(query_result),
                                locals, tie, pivot))
    /\ pc' = "rendered"
    /\ UNCHANGED <<query, query_result, viz_result, visualization_spec, locals, d3_spec>>
    /\ UNCHANGED api_vars

\* create_d3_spec(data, columns, visualization_type, visualization_spec), as
\* process_query calls it at api_agent.py lines 86-97 when the orchestrator
\* has not returned a failure (orchestrator.py lines 134-137, api_agent.py
\* lines 78-84)
CreateD3Spec ==
    /\ pc = "rendered"
    /\ visualization.success
    /\ d3_spec' = create_d3_spec(Get(query_result, "data", <<>>),
                                 Get(query_result, "columns", <<>>),
                                 Get(visualization_spec, "visualization_type", ""),
                                 visualization_spec)
    /\ pc' = "responded"
    /\ UNCHANGED <<query, query_result, viz_result, visualization_spec, locals,
                   visualization>>
    /\ UNCHANGED api_vars

NextRender == Reconcile \/ BuildFigure \/ CreateD3Spec

SpecRender == InitRender /\ [][NextRender]_vars

-----------------------------------------------------------------------------
(* The state machine of two concurrent calls on the one VisualizationAgent:
   determine_visualization(query, query_result) in one thread and
   create_visualization(query_result, visualization_spec) in another.  The
   instance holds visualization_types only, which no method assigns; each
   call has its own locals; the arguments are shared objects.  Here pc is the
   position of each call. *)

\* results without rows, with one row, and with more rows than a pie keeps
ConcurrentResults ==
    {RenderResult(t, n) : t \in RenderShapes, n \in {0, 1, PieLimit + 1}}

ConcurrentHints == {<<>>, kw_pie, kw_matrix}

InitConcurrent ==
    /\ query_result \in ConcurrentResults
    /\ visualization_spec \in SelectedSpecs(query_result) \cup ForeignSpecs(query_result)
    /\ query \in ConcurrentHints
    /\ pc = [select |-> "start", render |-> "render"]
    /\ viz_result = None
    /\ locals = None
    /\ visualization = None
    /\ d3_spec = None
    /\ NoRequest

\* determine_visualization, lines 33-151: it reads its arguments with get and
\* copies the data into a frame (line 52)
ConcurrentSelect ==
    /\ pc.select = "start"
    /\ viz_result' = determine_visualization(query, query_result)
    /\ pc' = [pc EXCEPT !.select = "done"]
    /\ UNCHANGED <<query, query_result, visualization_spec, locals, visualization, d3_spec>>
    /\ UNCHANGED api_vars

\* create_visualization, lines 164-197
ConcurrentReconcile ==
    /\ pc.render = "render"
    /\ LET began == begin_render(query_result, visualization_spec)
       IN  IF began.returned
           THEN /\ visualization' = began.result
                /\ pc' = [pc EXCEPT !.render = "rendered"]
                /\ UNCHANGED <<locals, visualization_spec>>
           ELSE /\ locals' = began.locals
                /\ visualization_spec' =
                       spec_after_reconcile(query_result, visualization_spec)
                /\ pc' = [pc EXCEPT !.render = "build"]
                /\ UNCHANGED visualization
    /\ UNCHANGED <<query, query_result, viz_result, d3_spec>>
    /\ UNCHANGED api_vars

\* create_visualization, lines 199-329
ConcurrentBuild ==
    /\ pc.render = "build"
    /\ \E tie \in {"kept", "swapped"}, pivot \in {"figure", "raise"} :
           visualization' =
               render_result(locals,
                   build_figure(query_result.data, df_columns(query_result),
                                locals, tie, pivot))
    /\ pc' = [pc EXCEPT !.render = "rendered"]
    /\ UNCHANGED <<query, query_result, viz_result, visualization_spec, locals, d3_spec>>
    /\ UNCHANGED api_vars

NextConcurrent == ConcurrentSelect \/ ConcurrentReconcile \/ ConcurrentBuild

SpecConcurrent == InitConcurrent /\ [][NextConcurrent]_vars

-----------------------------------------------------------------------------
(* The state machine of the API: requests to /api/query, one after the other
   (the handler does not await), over the one Orchestrator of the module *)

\* the queries asked: one without keyword, one with the keyword table
Queries == {Join(<<w_show, w_sales>>), Join(<<kw_table, w_sales>>)}

\* what the LLM does
LlmOutcomes == {"raise", "SELECT"}

\* what the database does: it raises, or it gives no row, the sales of two
\* categories, or more categories than a pie keeps
DbOutcomes ==
    {db_raised} \cup
    {db_execute_query(RenderResult(t, n).data, RenderResult(t, n).columns) :
        <<t, n>> \in {<<(<<"string", "integer">>), 0>>,
                      <<(<<"string", "integer">>), 2>>,
                      <<(<<"string">>), PieLimit + 1>>}}

InitApi ==
    /\ pc = "idle"
    /\ query = <<>>
    /\ query_result = None
    /\ viz_result = None
    /\ visualization_spec = None
    /\ locals = None
    /\ visualization = None
    /\ d3_spec = None
    /\ NoRequest

\* api_agent.py lines 59-72: a request arrives; reset_context empties both
\* histories (orchestrator.py lines 213-216, text_to_sql_agent.py lines 146-148)
ReceiveQuery ==
    /\ pc = "idle"
    /\ \E q \in Queries, reset_context \in BOOLEAN :
        /\ request' = [query |-> q, reset_context |-> reset_context]
        /\ IF reset_context
           THEN /\ conversation_history' = <<>>
                /\ sql_conversation_history' = <<>>
           ELSE UNCHANGED <<conversation_history, sql_conversation_history>>
    /\ response' = None
    /\ pc' = "process"
    /\ UNCHANGED <<query, query_result, viz_result, visualization_spec, locals,
                   visualization, d3_spec, db_result, result, invoked, prompt>>

\* api_agent.py line 75: orchestrator.process(request.query)
Process ==
    /\ pc = "process"
    /\ \E llm \in LlmOutcomes, db \in DbOutcomes,
          tie \in {"kept", "swapped"}, pivot \in {"figure", "raise"} :
        \E returned \in {process(request.query, sql_conversation_history,
                                conversation_history, llm, db, tie, pivot)} :
            /\ result' = returned.result
            /\ invoked' = returned.invoked
            /\ sql_conversation_history' = returned.sql_conversation_history
            /\ conversation_history' = returned.conversation_history
            /\ prompt' = returned.prompt
            /\ db_result' = returned.db_result
    /\ query' = request.query
    /\ pc' = "respond"
    /\ UNCHANGED <<query_result, viz_result, visualization_spec, locals,
                   visualization, d3_spec, request, response>>

\* api_agent.py lines 77-113: the answer; the locals of the handler end
Respond ==
    /\ pc = "respond"
    /\ response' = query_response(request, result)
    /\ result' = None
    /\ invoked' = <<>>
    /\ prompt' = None
    /\ db_result' = None
    /\ pc' = "idle"
    /\ UNCHANGED <<query, query_result, viz_result, visualization_spec, locals,
                   visualization, d3_spec, request,
                   sql_conversation_history, conversation_history>>

NextApi == ReceiveQuery \/ Process \/ Respond

SpecApi == InitApi /\ [][NextApi]_vars

-----------------------------------------------------------------------------
(* The inputs and the state machine of a profiling: the rows SQLite gives for
   a query, read by db_manager.execute_query, profiled by execute_query *)

\* the values of a row of SQLite: INTEGER, REAL, TEXT, NULL
SqliteValues ==
    {[kind |-> "integer", value |-> 1], [kind |-> "integer", value |-> 2],
     [kind |-> "float", value |-> 1, integral |-> FALSE],
     [kind |-> "string", value |-> 1],
     [kind |-> "null", value |-> 0]}

\* the values of a second column
SqliteLabels == {[kind |-> "string", value |-> 2], [kind |-> "integer", value |-> 3]}

\* tables of one column, and of two
SqliteTables ==
    UNION {
        {[columns |-> <<"category">>,
          rows |-> [i \in 1..n |-> [category |-> first[i]]]] :
            first \in [1..n -> SqliteValues]}
        \cup
        {[columns |-> <<"category", "total">>,
          rows |-> [i \in 1..n |-> [category |-> first[i], total |-> second[i]]]] :
            first \in [1..n -> SqliteValues], second \in [1..n -> SqliteLabels]}
        : n \in 0..MaxProfileRows}

InitProfile ==
    /\ db_result \in {db_execute_query(t.rows, t.columns) : t \in SqliteTables}
    /\ pc = "query"
    /\ query = <<>>
    /\ query_result = None
    /\ viz_result = None
    /\ visualization_spec = None
    /\ locals = None
    /\ visualization = None
    /\ d3_spec = None
    /\ sql_conversation_history = <<>>
    /\ conversation_history = <<>>
    /\ request = None
    /\ result = None
    /\ invoked = <<>>
    /\ prompt = None
    /\ response = None

\* DataQueryAgent.execute_query, after db_manager.execute_query returned
ExecuteQuery ==
    /\ pc = "query"
    /\ query_result' = execute_query(db_result)
    /\ pc' = "profiled"
    /\ UNCHANGED <<query, viz_result, visualization_spec, locals, visualization, d3_spec>>
    /\ UNCHANGED api_vars

NextProfile == ExecuteQuery

SpecProfile == InitProfile /\ [][NextProfile]_vars

-----------------------------------------------------------------------------
(* What the claims are stated in *)

\* the call returned a specification
Selected == pc = "done" /\ viz_result.success

TheSpec == viz_result.visualization_spec

\* the columns of the result whose profile type is in types, in column order
ColumnsOfType(types) ==
    LET Has(col) == query_result.data_types[col] \in types
    IN  SelectSeq(query_result.columns, Has)

Numerics == ColumnsOfType({"integer", "float"})
Categoricals == ColumnsOfType({"string"})
Datetimes == ColumnsOfType({"datetime"})

FirstUpTo3(s) == IF Len(s) <= 3 THEN s ELSE <<s[1], s[2], s[3]>>

\* the vocabulary of the override in its order: groups of keywords and the
\* chart type of each
Vocabulary ==
    << [keywords |-> {kw_distribution, kw_histogram}, type |-> "histogram"],
       [keywords |-> {kw_scatter, kw_correlation, kw_relationship}, type |-> "scatter"],
       [keywords |-> {kw_line, kw_trend, kw_over_time}, type |-> "line"],
       [keywords |-> {kw_pie, kw_proportion, kw_percentage}, type |-> "pie"],
       [keywords |-> {kw_box, kw_boxplot}, type |-> "box"],
       [keywords |-> {kw_heatmap, kw_matrix}, type |-> "heatmap"],
       [keywords |-> {kw_table}, type |-> "table"] >>

\* the groups of the vocabulary with a keyword in the lower-cased hint
HitGroups(hint) ==
    LET lowered == lower(hint)
    IN  {i \in 1..Len(Vocabulary) :
            \E kw \in Vocabulary[i].keywords : Contains(lowered, kw)}

\* the hint holds no override keyword
NoKeyword(hint) == HitGroups(hint) = {}

\* the cases a-d of the rule for two or more columns
CaseLine == Len(Datetimes) >= 1 /\ Len(Numerics) >= 1
CaseBar == Len(Categoricals) = 1 /\ Len(Numerics) >= 1
CaseHeatmap == Len(Categoricals) >= 2 /\ Len(Numerics) = 1
CaseScatter == Len(Numerics) >= 2

-----------------------------------------------------------------------------
(* The claims *)

\* C1: with at least 2 columns, no datetime column, exactly one string column
\* and at least one numeric column, and a hint without override keyword, the
\* spec is a bar chart, x the string column, y the first up to 3 numeric columns.
C1_BarForOneCategorical ==
    (/\ Selected
     /\ Len(query_result.columns) >= 2
     /\ Len(Datetimes) = 0
     /\ Len(Categoricals) = 1
     /\ Len(Numerics) >= 1
     /\ NoKeyword(query))
    => /\ TheSpec.visualization_type = "bar"
       /\ TheSpec.x_column = Categoricals[1]
       /\ TheSpec.y_columns = FirstUpTo3(Numerics)

\* a bar chart chosen for one string column and more than 3 numeric columns
C1_Witness ==
    /\ Selected
    /\ Len(Datetimes) = 0
    /\ Len(Categoricals) = 1
    /\ Len(Numerics) > 3
    /\ NoKeyword(query)
    /\ TheSpec.visualization_type = "bar"
    /\ Len(TheSpec.y_columns) = 3

\* C2: with at least 2 columns, a datetime column and a numeric column, and a
\* hint without override keyword, the spec is a line chart, x the first
\* datetime column, y the first up to 3 numeric columns (1 to 3 of them).
C2_LineForDatetime ==
    (/\ Selected
     /\ Len(query_result.columns) >= 2
     /\ Len(Datetimes) >= 1
     /\ Len(Numerics) >= 1
     /\ NoKeyword(query))
    => /\ TheSpec.visualization_type = "line"
       /\ TheSpec.x_column = Datetimes[1]
       /\ TheSpec.y_columns = FirstUpTo3(Numerics)
       /\ Len(TheSpec.y_columns) \in 1..3

\* a line chart chosen with two datetime columns, the first of them as x
C2_Witness ==
    /\ Selected
    /\ Len(Datetimes) >= 2
    /\ Len(Numerics) >= 1
    /\ NoKeyword(query)
    /\ TheSpec.visualization_type = "line"
    /\ TheSpec.x_column = Datetimes[1]

\* C3: with exactly one column, of type integer or float, and a hint whose only
\* override keywords, if any, are those of the histogram group, the spec is a
\* histogram with x that column.
C3_HistogramForOneNumeric ==
    (/\ Selected
     /\ Len(query_result.columns) = 1
     /\ Len(Numerics) = 1
     /\ HitGroups(query) \subseteq {1})
    => /\ TheSpec.visualization_type = "histogram"
       /\ TheSpec.x_column = query_result.columns[1]

\* a histogram chosen for a single numeric column under a hint with no keyword
C3_Witness ==
    /\ Selected
    /\ Len(query_result.columns) = 1
    /\ Len(Numerics) = 1
    /\ NoKeyword(query)
    /\ Len(query) > 0
    /\ TheSpec.visualization_type = "histogram"

\* C4: with exactly one column, not numeric, and a hint without override
\* keyword, the spec is a pie chart with x that column and the count as its
\* value channel.
C4_PieForOneNonNumeric ==
    (/\ Selected
     /\ Len(query_result.columns) = 1
     /\ Len(Numerics) = 0
     /\ NoKeyword(query))
    => /\ TheSpec.visualization_type = "pie"
       /\ TheSpec.x_column = query_result.columns[1]
       /\ TheSpec.y_columns = <<"count">>

\* a pie chart chosen for a single string column
C4_Witness ==
    /\ Selected
    /\ Len(query_result.columns) = 1
    /\ Len(Categoricals) = 1
    /\ NoKeyword(query)
    /\ TheSpec.visualization_type = "pie"

\* C5: with no datetime column, at least 2 string columns and exactly one
\* numeric column, and a hint without override keyword, the spec is a heatmap,
\* x the first string column, y and color the numeric column.
C5_HeatmapForTwoCategoricals ==
    (/\ Selected
     /\ Len(Datetimes) = 0
     /\ Len(Categoricals) >= 2
     /\ Len(Numerics) = 1
     /\ NoKeyword(query))
    => /\ TheSpec.visualization_type = "heatmap"
       /\ TheSpec.x_column = Categoricals[1]
       /\ TheSpec.y_columns = <<Numerics[1]>>
       /\ TheSpec.color_column = Numerics[1]

\* a heatmap chosen where the numeric column stands before the string columns
C5_Witness ==
    /\ Selected
    /\ Len(Datetimes) = 0
    /\ Len(Categoricals) >= 2
    /\ Len(Numerics) = 1
    /\ NoKeyword(query)
    /\ query_result.columns[1] = Numerics[1]
    /\ TheSpec.visualization_type = "heatmap"

\* C6: with at least 2 numeric columns and none of the line, bar and heatmap
\* cases matching, whatever the number of string columns, and a hint without
\* override keyword, the spec is a scatter plot, x the first numeric column,
\* y the second, color the third if there is one.
C6_ScatterForTwoNumerics ==
    (/\ Selected
     /\ Len(query_result.columns) >= 2
     /\ CaseScatter
     /\ ~CaseLine /\ ~CaseBar /\ ~CaseHeatmap
     /\ NoKeyword(query))
    => /\ TheSpec.visualization_type = "scatter"
       /\ TheSpec.x_column = Numerics[1]
       /\ TheSpec.y_columns = <<Numerics[2]>>
       /\ TheSpec.color_column = IF Len(Numerics) >= 3 THEN Numerics[3] ELSE None

\* C7: with at least 2 columns and none of the cases a-d matching, and a hint
\* without override keyword, the spec is a table, never the initial bar.
C7_TableOtherwise ==
    (/\ Selected
     /\ Len(query_result.columns) >= 2
     /\ ~CaseLine /\ ~CaseBar /\ ~CaseHeatmap /\ ~CaseScatter
     /\ NoKeyword(query))
    => TheSpec.visualization_type = "table"

\* a table chosen for string and datetime columns without a numeric one
C7_Witness ==
    /\ Selected
    /\ Len(Categoricals) >= 1
    /\ Len(Datetimes) >= 1
    /\ Len(Numerics) = 0
    /\ NoKeyword(query)
    /\ TheSpec.visualization_type = "table"

\* C8: over the same query result, every hint gives a spec with the x_column,
\* y_columns and color_column of the spec the empty hint gives, so any two
\* hints give the same ones: the hint changes the type only.
C8_HintChangesTypeOnly ==
    Selected =>
        LET other == determine_visualization(<<>>, query_result)
        IN  /\ other.success
            /\ other.visualization_spec.x_column = TheSpec.x_column
            /\ other.visualization_spec.y_columns = TheSpec.y_columns
            /\ other.visualization_spec.color_column = TheSpec.color_column

\* a hint that changed the type of the spec another hint gives for the same
\* result, where the rule assigned no y column and the result has a numeric one
C8_Witness ==
    /\ Selected
    /\ Len(query_result.columns) = 1
    /\ Len(Numerics) = 1
    /\ TheSpec.visualization_type = "pie"
    /\ TheSpec.y_columns = Numerics
    /\ \E hint \in SampleHints :
           determine_visualization(hint, query_result).visualization_spec.visualization_type
               = "histogram"

\* C9: the chart type is that of the first group of the vocabulary, in its
\* order, with a keyword in the lower-cased hint, whatever later groups match;
\* with no group matching it is the type of the base rule.
C9_FirstKeywordGroupWins ==
    Selected =>
        LET hit == HitGroups(query)
        IN  IF hit = {}
            THEN TheSpec.visualization_type
                     = base_rule(query_result.columns, query_result.data_types).viz_type
            ELSE TheSpec.visualization_type
                     = Vocabulary[CHOOSE i \in hit : \A j \in hit : i <= j].type

\* a hint with both 'box' and 'trend' gave a line chart where the base rule
\* gives another type
C9_Witness ==
    /\ Selected
    /\ Contains(lower(query), kw_box)
    /\ Contains(lower(query), kw_trend)
    /\ TheSpec.visualization_type = "line"
    /\ base_rule(query_result.columns, query_result.data_types).viz_type # "line"

\* C10: in every spec, x_column when not None, every entry of y_columns and
\* color_column when not None are names of data_columns.
C10_ChannelsAreSourceColumns ==
    Selected =>
        /\ TheSpec.x_column # None => InSeq(TheSpec.x_column, TheSpec.data_columns)
        /\ \A k \in 1..Len(TheSpec.y_columns) :
               InSeq(TheSpec.y_columns[k], TheSpec.data_columns)
        /\ TheSpec.color_column # None =>
               InSeq(TheSpec.color_column, TheSpec.data_columns)

\* the chart types of the specification
ChartTypes ==
    {"bar", "line", "scatter", "pie", "histogram", "box", "violin", "heatmap", "table"}

\* C11: in every spec returned, visualization_type is one of bar, line,
\* scatter, pie, histogram, box, violin, heatmap, table.
C11_TypeIsEnumerated ==
    Selected =>
        /\ TheSpec.visualization_type \in ChartTypes
        /\ InSeq(TheSpec.visualization_type, visualization_types)

\* the override gave box, a type no base rule gives
C11_Witness ==
    /\ Selected
    /\ TheSpec.visualization_type = "box"
    /\ base_rule(query_result.columns, query_result.data_types).viz_type # "box"

\* the call was made on a successful query result
CalledOnSuccess == pc = "done" /\ query_result.success

\* C12 as stated: given a successful query result, the call fails exactly when
\* the result has zero columns; with a column, also with zero rows, it succeeds.
C12_FailsOnlyWithoutColumns ==
    CalledOnSuccess =>
        (~viz_result.success <=> Len(query_result.columns) = 0)

\* C12, amended: given a successful query result, the call fails exactly when
\* the result has zero rows or zero columns; with a row and a column it
\* succeeds with a spec.
C12_FailsWithoutRowsOrColumns ==
    CalledOnSuccess =>
        /\ ~viz_result.success
               <=> (Len(query_result.data) = 0 \/ Len(query_result.columns) = 0)
        /\ viz_result.success => "visualization_spec" \in DOMAIN viz_result
        /\ ~viz_result.success => "error" \in DOMAIN viz_result

\* a result with columns and no row, and the call failed
C12_Witness ==
    /\ CalledOnSuccess
    /\ Len(query_result.columns) >= 1
    /\ Len(query_result.data) = 0
    /\ ~viz_result.success

\* C13: when the base rule assigned no y columns, y_columns is the first up to
\* 3 numeric columns in column order (empty without a numeric column); when it
\* assigned some, they are kept.
C13_DefaultYColumns ==
    Selected =>
        LET assigned == base_rule(query_result.columns, query_result.data_types).y_columns
        IN  IF assigned = <<>>
            THEN TheSpec.y_columns = FirstUpTo3(Numerics)
            ELSE TheSpec.y_columns = assigned

\* no case of the rule matched (2 string columns, more than 3 numeric ones) and
\* y_columns is the first 3 numeric columns
C13_Witness ==
    /\ Selected
    /\ base_rule(query_result.columns, query_result.data_types).y_columns = <<>>
    /\ Len(Categoricals) >= 2
    /\ Len(Numerics) > 3
    /\ Len(TheSpec.y_columns) = 3

-----------------------------------------------------------------------------
(* What the claims about create_visualization and create_d3_spec are stated in *)

\* create_visualization has returned
Returned == pc \in {"rendered", "responded"}

\* the query result has rows
HasRows == Len(Get(query_result, "data", <<>>)) > 0

\* the spec's x_column is a data column
XInData == InSeq(visualization_spec.x_column, query_result.columns)

\* the call had data and its spec names no x column the data lacks
Reconciled ==
    /\ pc \in {"build", "rendered", "responded"}
    /\ HasRows
    /\ (visualization_spec.x_column = None \/ XInData)

\* the distinct values of the spec's x_column in the data
DistinctX ==
    {query_result.data[i][visualization_spec.x_column] : i \in 1..Len(query_result.data)}

\* C14: every pie render over more than 10 rows succeeds with exactly 10
\* slots, the 9 largest values in descending order and then a slot labelled
\* "Other" whose value is the sum of the other rows' values; a pie render over
\* 10 rows or fewer succeeds with one slot for each row.  (Violated: with one
\* data column and no y column left, line 239 raises and the call fails.)
C14_PieKeepsTopNineAndOther ==
    (Returned /\ HasRows /\ XInData
        /\ visualization_spec.visualization_type = "pie")
    => /\ visualization.success
       /\ LET data == query_result.data
              slots == visualization.figure.slots
              y == visualization.figure.y
          IN  IF Len(data) > 10
              THEN /\ Len(slots) = 10
                   /\ slots[10].label = Other
                   /\ y # None
                   /\ \A i \in 1..8 : slots[i].value.value >= slots[i + 1].value.value
                   /\ slots[10].value.kind \in {"integer", "float"}
                   /\ slots[10].value.value
                        = SumValues([i \in 1..Len(data) |-> data[i][y]])
                            - SumValues([i \in 1..9 |-> slots[i].value])
              ELSE /\ Len(slots) = Len(data)
                   /\ \A i \in 1..Len(data) :
                          slots[i].label = data[i][visualization_spec.x_column]

\* C15: a heatmap spec rendered over data whose x_column has more than 20
\* distinct values returns an artifact whose visualization_type is "table";
\* with 20 or fewer and a y column, the artifact it returns has
\* visualization_type "heatmap".  (Violated: line 321 reports the spec's type,
\* "heatmap", over the table figure.)
C15_LargeHeatmapReportsTable ==
    (Returned /\ HasRows /\ XInData
        /\ visualization_spec.visualization_type = "heatmap"
        /\ Len(locals.y_columns) >= 1)
    => IF Cardinality(DistinctX) > 20
       THEN /\ visualization.success
            /\ visualization.visualization_type = "table"
       ELSE visualization.success => visualization.visualization_type = "heatmap"

\* C16: whenever the query result has no rows, create_visualization returns
\* success = FALSE with an error message and no figure, for every spec
C16_NoRowsIsFailure ==
    (Returned /\ ~HasRows)
    => /\ ~visualization.success
       /\ DOMAIN visualization = {"success", "error"}

C16_Witness ==
    /\ Returned /\ ~HasRows
    /\ XInData
    /\ visualization_spec.visualization_type = "table"
    /\ ~visualization.success

\* C17: when the spec's x_column is no data column, create_visualization
\* returns success with a figure whose x is the first data column.  (Violated:
\* line 186 raises on the truth value of df.columns and the call fails.)
C17_MissingXIsSubstituted ==
    (Returned /\ HasRows
        /\ visualization_spec.x_column # None /\ ~XInData)
    => /\ visualization.success
       /\ visualization.figure.trace # "table"
            => visualization.figure.x = query_result.columns[1]

\* C18: after the reconciliation y_columns is the spec's y_columns that are
\* data columns, in their order; when there is none and the data has more than
\* one column, it is the first up to 3 numeric data columns other than
\* x_column, in the order of the data columns; with one data column it stays
\* empty
C18_YColumnsReconciled ==
    Reconciled
    => LET columns == query_result.columns
           InData(col) == InSeq(col, columns)
           NumericOther(col) ==
               /\ col # locals.x_column
               /\ query_result.data_types[col] \in {"integer", "float"}
           kept == SelectSeq(visualization_spec.y_columns, InData)
       IN  locals.y_columns =
               IF Len(kept) > 0 THEN kept
               ELSE IF Len(columns) > 1 THEN FirstUpTo3(SelectSeq(columns, NumericOther))
               ELSE <<>>

C18_Witness ==
    /\ pc = "build"
    /\ Len(visualization_spec.y_columns) > 0
    /\ \A k \in 1..Len(visualization_spec.y_columns) :
           ~InSeq(visualization_spec.y_columns[k], query_result.columns)
    /\ query_result.data_types[locals.x_column] = "integer"
    /\ Cardinality({k \in 1..Len(query_result.columns) :
           query_result.data_types[query_result.columns[k]] \in {"integer", "float"}}) = 4
    /\ Len(locals.y_columns) = 3
    /\ ~InSeq(locals.x_column, locals.y_columns)

\* a heatmap spec rendered over data, with no y column after the reconciliation
HeatmapWithoutY ==
    /\ Returned /\ Reconciled
    /\ locals.viz_type = "heatmap"
    /\ Len(locals.y_columns) = 0

\* C19 as stated: rendering a heatmap spec with no y column left after the
\* reconciliation returns a failure
C19_HeatmapWithoutYFails ==
    HeatmapWithoutY => ~visualization.success

\* C19: rendering a heatmap spec with no y column left after the
\* reconciliation returns success with the table figure of all data columns
C19_HeatmapWithoutYIsTable ==
    HeatmapWithoutY
    => /\ visualization.success
       /\ visualization.figure.trace = "table"
       /\ visualization.figure.header = query_result.columns

C19_Witness ==
    /\ HeatmapWithoutY
    /\ Len(visualization_spec.y_columns) > 0
    /\ Len(query_result.columns) > 1
    /\ visualization.success
    /\ visualization.figure.trace = "table"

\* C20: create_d3_spec over data gives encoding.x.type "nominal" for the types
\* bar and pie and "quantitative" for every other type, and for a bar spec
\* mark "bar"
C20_XTypeOfD3Spec ==
    (pc = "responded" /\ HasRows)
    => /\ d3_spec.encoding.x.type =
              IF visualization_spec.visualization_type \in {"bar", "pie"}
              THEN "nominal" ELSE "quantitative"
       /\ visualization_spec.visualization_type = "bar"
              => /\ d3_spec.mark = "bar"
                 /\ d3_spec.encoding.x.type = "nominal"

C20_Witness ==
    /\ pc = "responded" /\ HasRows
    /\ visualization_spec.visualization_type = "pie"
    /\ d3_spec.mark = "arc"
    /\ d3_spec.encoding.x.type = "nominal"

\* C21: create_d3_spec over data gives the mark bar, line, circle, arc, rect
\* for the types bar, line, scatter, pie, heatmap, and for every other type a
\* dict with data and encoding and no mark; encoding.y is there exactly when
\* the spec's y_columns is not empty, with the first y column as field, and
\* encoding.color exactly when color_column is not None
C21_MarksAndChannelsOfD3Spec ==
    (pc = "responded" /\ HasRows)
    => LET viz_type == visualization_spec.visualization_type
           encoding == d3_spec.encoding
       IN  /\ {"data", "encoding"} \subseteq DOMAIN d3_spec
           /\ viz_type = "bar" => d3_spec.mark = "bar"
           /\ viz_type = "line" => d3_spec.mark = "line"
           /\ viz_type = "scatter" => d3_spec.mark = "circle"
           /\ viz_type = "pie" => d3_spec.mark = "arc"
           /\ viz_type = "heatmap" => d3_spec.mark = "rect"
           /\ viz_type \in {"histogram", "box", "violin", "table"}
                  => "mark" \notin DOMAIN d3_spec
           /\ ("y" \in DOMAIN encoding) <=> (Len(visualization_spec.y_columns) > 0)
           /\ Len(visualization_spec.y_columns) > 0
                  => encoding.y.field = visualization_spec.y_columns[1]
           /\ ("color" \in DOMAIN encoding) <=> (visualization_spec.color_column # None)
           /\ visualization_spec.color_column # None
                  => encoding.color.field = visualization_spec.color_column

\* a violin spec with y columns and a color column, answered without mark
C21_Witness ==
    /\ pc = "responded" /\ HasRows
    /\ visualization_spec.visualization_type = "violin"
    /\ Len(visualization_spec.y_columns) > 1
    /\ visualization_spec.color_column # None
    /\ "mark" \notin DOMAIN d3_spec
    /\ "color" \in DOMAIN d3_spec.encoding
    /\ d3_spec.encoding.y.field = visualization_spec.y_columns[1]

\* C26: the spec determine_visualization gives for a result with rows is
\* rendered with success over the same data, here for the pie spec of a single
\* string column.  (Violated for more than 10 rows: the spec's y column "count"
\* is no data column, none is left, and line 239 raises on df.columns[1].)
C26_SelectedPieIsRendered ==
    (/\ Returned /\ HasRows
     /\ Len(query_result.columns) = 1
     /\ query_result.data_types[query_result.columns[1]] = "string"
     /\ visualization_spec.visualization_type = "pie"
     /\ visualization_spec = determine_visualization(<<>>, query_result).visualization_spec)
    => visualization.success

-----------------------------------------------------------------------------
(* What the claim about the profiler is stated in *)

\* the values of a column that execute_query was given
GivenCells(col) == column_cells(db_result.data, col)

IsNull(cell) == cell.kind \in {"null", "nan"}

IsNumber(cell) == cell.kind \in {"integer", "float"}

IsIntegral(cell) ==
    \/ cell.kind = "integer"
    \/ cell.kind = "float" /\ cell.integral

\* the type the profiler is said to give to a column of these values
SaidType(cells) ==
    LET Of(Test(_)) == \A i \in 1..Len(cells) : Test(cells[i])
        NumberOrNull(c) == IsNumber(c) \/ IsNull(c)
        IntegralOrNull(c) == IsIntegral(c) \/ IsNull(c)
        DatetimeOrNull(c) == c.kind = "datetime" \/ IsNull(c)
    IN  IF Of(NumberOrNull) /\ Of(IntegralOrNull) THEN "integer"
        ELSE IF Of(NumberOrNull) THEN "float"
        ELSE IF Of(DatetimeOrNull) THEN "datetime"
        ELSE "string"

\* C24: for a result with rows, every column has one entry in data_types, and
\* a column with a value that is not null has the type: integer when its
\* values are numbers or null and the numbers integral, float when they are
\* numbers or null, datetime when they are dates, string otherwise.
\* (Violated: a column of INTEGER values and a NULL is float64 in pandas, its
\* values are floats and NaN, and line 54 finds no int and no None: "float".)
C24_ProfileTypes ==
    (pc = "profiled" /\ db_result.row_count > 0)
    => /\ DOMAIN query_result.data_types
             = {query_result.columns[k] : k \in 1..Len(query_result.columns)}
       /\ \A col \in DOMAIN query_result.data_types :
              (\E i \in 1..Len(GivenCells(col)) : ~IsNull(GivenCells(col)[i]))
              => query_result.data_types[col] = SaidType(GivenCells(col))

-----------------------------------------------------------------------------
(* What the claims about the two calls are stated in *)

\* a returned dict is tagged: success with these keys and no error, or
\* failure with an error and none of these keys
Tagged(returned, payload) ==
    /\ "success" \in DOMAIN returned
    /\ IF returned.success
       THEN payload \subseteq DOMAIN returned /\ "error" \notin DOMAIN returned
       ELSE "error" \in DOMAIN returned /\ payload \cap DOMAIN returned = {}

\* C22: determine_visualization and create_visualization return a dict with
\* success = TRUE and their payload (visualization_spec; figure and
\* visualization_type) and no error, or with success = FALSE and an error and
\* no payload, for every input
C22_ResultsAreTagged ==
    /\ pc.select = "done" => Tagged(viz_result, {"visualization_spec"})
    /\ pc.render = "rendered" => Tagged(visualization, {"figure", "visualization_type"})

\* a selection that succeeded and a rendering that failed inside pandas
C22_Witness ==
    /\ pc.select = "done" /\ pc.render = "rendered"
    /\ viz_result.success
    /\ Len(query_result.data) > PieLimit
    /\ InSeq(visualization_spec.x_column, query_result.columns)
    /\ ~visualization.success

PipelineSteps ==
    <<"generate_sql", "execute_query", "determine_visualization",
      "create_visualization">>

\* the error messages each step of the pipeline can give
StepMessages ==
    <<{"Error generating SQL"},
      {"Error executing query"},
      {"No data available for visualization", "Error determining visualization"},
      {"No data available for visualization", "Error creating visualization"}>>

\* process has just returned
Processed == pc = "respond"

\* C23: a call of process that fails leaves the history of the orchestrator
\* and the history of the text-to-SQL agent as they were before the call.
C23_FailedCallLeavesHistories ==
    [][(pc = "process" /\ pc' = "respond" /\ ~result'.success)
        => /\ conversation_history' = conversation_history
           /\ sql_conversation_history' = sql_conversation_history]_vars

\* C27: process invokes generation, execution, selection and rendering in this
\* order; the first step that fails ends the call, with its message as the
\* error, no later step invoked, and the fields of that step and of the later
\* ones still None; a call that succeeds has set the four fields and left the
\* error None.
C27_StepsInOrderUntilFirstFailure ==
    Processed =>
        LET k == Len(invoked)
        IN  /\ k \in 1..4
            /\ invoked = SubSeq(PipelineSteps, 1, k)
            /\ result.success => k = 4
            /\ result.success <=> result.error = None
            /\ ~result.success => result.error \in StepMessages[k]
            /\ (k = 1) <=> (result.sql_query = None)
            /\ k = 1 => ~result.success
            /\ IF k <= 2 THEN result.query_result = None
               ELSE result.query_result.success
            /\ IF k <= 3 THEN result.visualization_spec = None
               ELSE result.visualization_spec.visualization_type \in ChartTypes
            /\ IF result.success THEN result.visualization.success
               ELSE result.visualization = None

\* a call that failed at rendering: every step was invoked
C27_Witness ==
    /\ Processed
    /\ ~result.success
    /\ Len(invoked) = 4
    /\ result.visualization_spec.visualization_type = "pie"
    /\ result.error = "Error creating visualization"

\* C28: the history of the orchestrator holds at most 5 entries, the most
\* recent calls that succeeded since the last reset in their order: a call that
\* succeeds appends its entry and drops the oldest beyond 5, a call that fails
\* leaves it; the history of the text-to-SQL agent holds at most 5 entries and
\* its last 3 are the context of the prompt; a reset empties both.
C28_HistoriesAreBounded ==
    /\ [](/\ Len(conversation_history) <= 5
          /\ Len(sql_conversation_history) <= 5)
    /\ [][/\ (pc = "process" /\ pc' = "respond") =>
              /\ Len(prompt'.conversation_history) <= 3
              /\ prompt'.conversation_history =
                     Last(sql_conversation_history, 3)
              /\ IF result'.success
                 THEN LET entry == [query |-> request.query,
                                    sql_query |-> result'.sql_query,
                                    visualization_type |->
                                        result'.visualization_spec.visualization_type]
                      IN  conversation_history' =
                              Last(Append(conversation_history, entry), 5)
                 ELSE conversation_history' = conversation_history
          /\ (pc = "idle" /\ pc' = "process") =>
              IF request'.reset_context
              THEN conversation_history' = <<>> /\ sql_conversation_history' = <<>>
              ELSE /\ conversation_history' = conversation_history
                   /\ sql_conversation_history' = sql_conversation_history
          /\ (pc = "respond" /\ pc' = "idle") =>
              /\ conversation_history' = conversation_history
              /\ sql_conversation_history' = sql_conversation_history]_vars

\* a call succeeded on full histories, of which one holds a call that failed
C28_Witness ==
    /\ Processed
    /\ result.success
    /\ Len(conversation_history) = 5
    /\ Len(sql_conversation_history) = 5
    /\ Len(prompt.conversation_history) = 3
    /\ conversation_history[1].query # conversation_history[5].query
    /\ \E i \in 1..5 : sql_conversation_history[i].query # conversation_history[i].query

\* C29: for every failure of the pipeline, the failure of the generation of
\* SQL included, /api/query answers a QueryResponse with success false and the
\* error of the pipeline.
C29_FailureIsAnsweredNotRaised ==
    [][(pc = "respond" /\ pc' = "idle" /\ ~result.success)
        => /\ response'.kind = "QueryResponse"
           /\ ~response'.success
           /\ response'.error = result.error]_vars

====
